---- MODULE Spec2Model ----
(***************************************************************************)
(* A model of the chat-relay bot (src/bot): the token-budget trimmer of    *)
(* utils/message_utils.py, the start-up sequence of core/bot.py, main.py   *)
(* and services/chat_service.py, and the message handler of                *)
(* handlers/message_handler.py.                                            *)
(*                                                                         *)
(* Several groups of variables, one per part of the program; every           *)
(* specification below drives one group and leaves the others at rest.     *)
(***************************************************************************)
EXTENDS Integers, Sequences, FiniteSets, TLC

VARIABLES
    \* ---- limit_messages_by_tokens (one call) ----
    t_pc,           \* "call" before the call, "done" after it returned
    t_messages,     \* the argument `messages`
    t_limit,        \* the argument `token_limit`
    t_enc,          \* TRUE iff tiktoken.encoding_for_model(model) returns
    t_result,       \* the value returned
    \* ---- start-up: main() / TelegramBot.start / ChatService.initialize ----
    b_pc,           \* position of the start-up coroutine
    max_attempts,   \* config.max_retry_attempts
    attempt,        \* the loop variable of ChatService.initialize
    b_client,       \* ChatService.client during start-up: "None" or "Client"
    probes,         \* outcomes of client.list(), oldest first
    sleeps,         \* number of asyncio.sleep(delay) calls made
    connect_result, \* "running", "returned" or "raised": how initialize ended
    registered,     \* TRUE once add_event_handler(handle_message) ran
    served,         \* inbound events dispatched to handle_message
    exit_code,      \* "none" while the process runs, else 0 or 1
    \* ---- MessageHandler and ChatService while the bot serves ----
    chat_queues,        \* MessageHandler.chat_queues: chat id -> history
    sent_message_ids,   \* MessageHandler.sent_message_ids
    message_probability, \* MessageHandler.message_probability, in percent
    model,              \* ChatService.model
    vision_model,       \* ChatService.vision_model
    client,             \* ChatService.client: "None" or "Client"
    tasks,              \* one handle_message invocation per inbound event,
                        \* in arrival order
    executor            \* ChatService.executor: the calls queued and the
                        \* call the worker thread runs

trimVars == <<t_pc, t_messages, t_limit, t_enc, t_result>>
bootVars == <<b_pc, max_attempts, attempt, b_client, probes, sleeps,
              connect_result, registered, served, exit_code>>
botVars == <<chat_queues, sent_message_ids, message_probability, model,
             vision_model, client, tasks, executor>>
vars == <<trimVars, bootVars, botVars>>

----------------------------------------------------------------------------
(* Bounds of the model. *)

MaxMsgs == 3          \* longest message list handed to the trimmer
MaxContentLen == 4    \* longest content, in characters
MaxTok == 1           \* most tokens the tokenizer yields for one content
MaxBudget == 1        \* largest token_limit
MaxAttemptsBound == 4 \* largest config.max_retry_attempts
MaxServed == 2        \* most inbound events dispatched after start-up
MaxEvents == 2        \* most inbound events handled while serving
MaxMsgId == 2         \* largest message id the transport hands out
MaxStoreEvents == 102 \* most events of the one-at-a-time runs of SpecStore
MaxAdminEvents == 3   \* most events of the runs of SpecAdmin
MaxRandomEvents == 5  \* most events of the runs of SpecRandom
MaxRingEvents == 102  \* most events of the runs of SpecRing
MaxSummaryEvents == 2 \* most events handled in a run of SpecSummary
MaxImageEvents == 2   \* most events handled in a run of SpecImage
MaxModelEvents == 3   \* most events handled in a run of SpecModel

----------------------------------------------------------------------------
(* Sequences. *)

RECURSIVE SumOf(_, _)
\* the sum of the field `f` ("len" or "tok") over the records of s
SumOf(s, f) ==
    IF s = <<>> THEN 0
    ELSE (IF f = "len" THEN Head(s).len ELSE Head(s).tok) + SumOf(Tail(s), f)

IsSuffix(r, s) ==
    /\ Len(r) <= Len(s)
    /\ r = SubSeq(s, Len(s) - Len(r) + 1, Len(s))

SeqsUpTo(S, n) == UNION {[1..k -> S] : k \in 0..n}

----------------------------------------------------------------------------
(* utils/message_utils.py                                                  *)
(*                                                                         *)
(* A message is its content seen through the two cost strategies: `len` is *)
(* len(content), `tok` is len(encoding.encode(content)) and `bad` says     *)
(* that encoding.encode(content) raises (tiktoken refuses a content that   *)
(* holds a special token).                                                 *)

Contents ==
    [len : 0..MaxContentLen, tok : 0..MaxTok, bad : {FALSE}]
        \cup [len : 0..MaxContentLen, tok : {0}, bad : {TRUE}]

\* tokenizer_loop with the budget test off by one (>= for >)
RECURSIVE tokenizer_loop_ge(_, _, _, _, _)
tokenizer_loop_ge(messages, i, limited_messages, total_tokens, token_limit) ==
    IF i = 0 THEN [raised |-> FALSE, out |-> limited_messages]
    ELSE IF messages[i].bad THEN [raised |-> TRUE, out |-> <<>>]
    ELSE IF total_tokens + messages[i].tok >= token_limit
         THEN [raised |-> FALSE, out |-> limited_messages]
    ELSE tokenizer_loop_ge(messages, i - 1, <<messages[i]>> \o limited_messages,
                           total_tokens + messages[i].tok, token_limit)

\* the tokenizer loop, lines 32-46, from index i (newest first) downwards;
\* raised = TRUE stands for the exception that leaves the try block
RECURSIVE tokenizer_loop(_, _, _, _, _)
tokenizer_loop(messages, i, limited_messages, total_tokens, token_limit) ==
    IF i = 0 THEN [raised |-> FALSE, out |-> limited_messages]
    ELSE IF messages[i].bad THEN [raised |-> TRUE, out |-> <<>>]
    ELSE IF total_tokens + messages[i].tok > token_limit
         THEN [raised |-> FALSE, out |-> limited_messages]
    ELSE tokenizer_loop(messages, i - 1, <<messages[i]>> \o limited_messages,
                        total_tokens + messages[i].tok, token_limit)

\* fallback_loop with `continue` for `break`: a message that does not fit is
\* skipped and older ones are still examined
RECURSIVE fallback_loop_skip(_, _, _, _, _)
fallback_loop_skip(messages, i, limited_messages, total_chars, char_limit) ==
    IF i = 0 THEN limited_messages
    ELSE IF total_chars + messages[i].len > char_limit
         THEN fallback_loop_skip(messages, i - 1, limited_messages,
                                 total_chars, char_limit)
    ELSE fallback_loop_skip(messages, i - 1,
                            <<messages[i]>> \o limited_messages,
                            total_chars + messages[i].len, char_limit)

\* the fallback loop, lines 50-62
RECURSIVE fallback_loop(_, _, _, _, _)
fallback_loop(messages, i, limited_messages, total_chars, char_limit) ==
    IF i = 0 THEN limited_messages
    ELSE IF total_chars + messages[i].len > char_limit THEN limited_messages
    ELSE fallback_loop(messages, i - 1, <<messages[i]>> \o limited_messages,
                       total_chars + messages[i].len, char_limit)

\* TRUE iff the call leaves the try block by an exception: the encoding is
\* unavailable, or encode raises on a message the loop reaches
UsesFallback(messages, token_limit, enc) ==
    \/ ~enc
    \/ tokenizer_loop(messages, Len(messages), <<>>, 0, token_limit).raised

\* the tokenizer loop going over to the fallback loop at the message on
\* which encode raises, with the messages accepted so far kept
RECURSIVE mixed_loop(_, _, _, _, _)
mixed_loop(messages, i, limited_messages, total_tokens, token_limit) ==
    IF i = 0 THEN limited_messages
    ELSE IF messages[i].bad
         THEN fallback_loop(messages, i, limited_messages, 0, token_limit * 4)
    ELSE IF total_tokens + messages[i].tok > token_limit THEN limited_messages
    ELSE mixed_loop(messages, i - 1, <<messages[i]>> \o limited_messages,
                    total_tokens + messages[i].tok, token_limit)

\* limit_messages_by_tokens mixing the two strategies within one call
limit_messages_by_tokens_mixed(messages, token_limit, enc) ==
    IF messages = <<>> THEN <<>>
    ELSE IF ~enc
         THEN fallback_loop(messages, Len(messages), <<>>, 0, token_limit * 4)
    ELSE mixed_loop(messages, Len(messages), <<>>, 0, token_limit)

\* limit_messages_by_tokens, lines 24-62
limit_messages_by_tokens(messages, token_limit, enc) ==
    IF messages = <<>> THEN <<>>
    ELSE IF UsesFallback(messages, token_limit, enc)
         THEN fallback_loop(messages, Len(messages), <<>>, 0, token_limit * 4)
    ELSE tokenizer_loop(messages, Len(messages), <<>>, 0, token_limit).out

\* count_tokens, lines 5-21: the tokenizer's sum, or total_chars // 4 when
\* the encoding is unavailable or encode raises on one of the messages
count_tokens(messages, enc) ==
    IF enc /\ \A i \in 1..Len(messages) : ~messages[i].bad
    THEN SumOf(messages, "tok")
    ELSE SumOf(messages, "len") \div 4

InitTrim ==
    /\ t_pc = "call"
    /\ t_messages \in SeqsUpTo(Contents, MaxMsgs)
    /\ t_limit \in 0..MaxBudget
    /\ t_enc \in BOOLEAN
    /\ t_result = <<>>

Trim ==
    /\ t_pc = "call"
    /\ t_result' = limit_messages_by_tokens(t_messages, t_limit, t_enc)
    /\ t_pc' = "done"
    /\ UNCHANGED <<t_messages, t_limit, t_enc>>
    /\ UNCHANGED <<bootVars, botVars>>

TrimIdle ==
    /\ t_pc = "idle" /\ t_messages = <<>> /\ t_limit = 0
    /\ t_enc = TRUE /\ t_result = <<>>

----------------------------------------------------------------------------
(* Start-up: main (main.py), TelegramBot.start / initialize (core/bot.py)  *)
(* and ChatService.initialize (services/chat_service.py).                  *)
(*                                                                         *)
(* b_pc: "loop" at the head of `for attempt in range(max_attempts)`,       *)
(* "probe" inside client.list(), "sleep" inside asyncio.sleep(delay),      *)
(* "telegram" inside telegram_client.start(), "handlers" before            *)
(* _initialize_handlers, "serving" inside run_until_disconnected, "fail"   *)
(* while an exception travels up to main, "exited" at the end.             *)

BootIdle ==
    /\ b_pc = "idle" /\ max_attempts = 0 /\ attempt = 0 /\ b_client = "None"
    /\ probes = <<>> /\ sleeps = 0 /\ connect_result = "running"
    /\ registered = FALSE /\ served = 0 /\ exit_code = "none"

InitBoot ==
    /\ b_pc = "loop"
    /\ max_attempts \in 0..MaxAttemptsBound
    /\ attempt = 0
    /\ b_client = "None"
    /\ probes = <<>>
    /\ sleeps = 0
    /\ connect_result = "running"
    /\ registered = FALSE
    /\ served = 0
    /\ exit_code = "none"

\* the test of line 33 with the last attempt counted as one more to come
more_attempts_off_by_one(a, m) == a < m

\* line 33: `if attempt < max_attempts - 1`
more_attempts(a, m) == a < m - 1

\* line 23: the for loop takes its next value, or is exhausted and
\* initialize returns by falling off its end
initialize_loop ==
    /\ b_pc = "loop"
    /\ IF attempt < max_attempts
       THEN /\ b_pc' = "probe"
            /\ UNCHANGED connect_result
       ELSE /\ b_pc' = "telegram"
            /\ connect_result' = "returned"
    /\ UNCHANGED <<max_attempts, attempt, b_client, probes, sleeps,
                   registered, served, exit_code>>
    /\ UNCHANGED <<trimVars, botVars>>

\* lines 25-29: client.list() returns; the client is kept and initialize
\* returns
probe_ok ==
    /\ b_pc = "probe"
    /\ probes' = Append(probes, TRUE)
    /\ b_client' = "Client"
    /\ connect_result' = "returned"
    /\ b_pc' = "telegram"
    /\ UNCHANGED <<max_attempts, attempt, sleeps, registered, served,
                   exit_code>>
    /\ UNCHANGED <<trimVars, botVars>>

\* lines 31-36: client.list() raises; sleep before the next attempt, or
\* raise ChatServiceError after the last one
probe_fail ==
    /\ b_pc = "probe"
    /\ probes' = Append(probes, FALSE)
    /\ IF more_attempts(attempt, max_attempts)
       THEN /\ b_pc' = "sleep"
            /\ UNCHANGED connect_result
       ELSE /\ b_pc' = "fail"
            /\ connect_result' = "raised"
    /\ UNCHANGED <<max_attempts, attempt, b_client, sleeps, registered,
                   served, exit_code>>
    /\ UNCHANGED <<trimVars, botVars>>

\* line 34: asyncio.sleep(delay) returns and the loop goes on
sleep_done ==
    /\ b_pc = "sleep"
    /\ sleeps' = sleeps + 1
    /\ attempt' = attempt + 1
    /\ b_pc' = "loop"
    /\ UNCHANGED <<max_attempts, b_client, probes, connect_result,
                   registered, served, exit_code>>
    /\ UNCHANGED <<trimVars, botVars>>

\* core/bot.py lines 70-84: telegram_client.start() returns
telegram_start_ok ==
    /\ b_pc = "telegram"
    /\ b_pc' = "handlers"
    /\ UNCHANGED <<max_attempts, attempt, b_client, probes, sleeps,
                   connect_result, registered, served, exit_code>>
    /\ UNCHANGED <<trimVars, botVars>>

\* core/bot.py line 83: telegram_client.start() raises
telegram_start_fail ==
    /\ b_pc = "telegram"
    /\ b_pc' = "fail"
    /\ UNCHANGED <<max_attempts, attempt, b_client, probes, sleeps,
                   connect_result, registered, served, exit_code>>
    /\ UNCHANGED <<trimVars, botVars>>

\* core/bot.py lines 86-94: the handler is registered; start goes on to
\* run_until_disconnected
initialize_handlers ==
    /\ b_pc = "handlers"
    /\ registered' = TRUE
    /\ b_pc' = "serving"
    /\ UNCHANGED <<max_attempts, attempt, b_client, probes, sleeps,
                   connect_result, served, exit_code>>
    /\ UNCHANGED <<trimVars, botVars>>

\* an inbound event is dispatched to the registered handle_message
dispatch ==
    /\ b_pc = "serving"
    /\ registered
    /\ served < MaxServed
    /\ served' = served + 1
    /\ UNCHANGED <<b_pc, max_attempts, attempt, b_client, probes, sleeps,
                   connect_result, registered, exit_code>>
    /\ UNCHANGED <<trimVars, botVars>>

\* core/bot.py lines 103-111, main.py: run_until_disconnected returns, the
\* bot shuts down and main returns
disconnected ==
    /\ b_pc = "serving"
    /\ b_pc' = "exited"
    /\ exit_code' = 0
    /\ UNCHANGED <<max_attempts, attempt, b_client, probes, sleeps,
                   connect_result, registered, served>>
    /\ UNCHANGED <<trimVars, botVars>>

\* core/bot.py lines 53-55 and 107-111, main.py lines 18-23: the exception
\* becomes a BotException, start re-raises it after shutdown and main calls
\* sys.exit(1)
startup_failed ==
    /\ b_pc = "fail"
    /\ b_pc' = "exited"
    /\ exit_code' = 1
    /\ UNCHANGED <<max_attempts, attempt, b_client, probes, sleeps,
                   connect_result, registered, served>>
    /\ UNCHANGED <<trimVars, botVars>>

\* the steps of ChatService.initialize
ConnectStep == initialize_loop \/ probe_ok \/ probe_fail \/ sleep_done

----------------------------------------------------------------------------
(* handlers/message_handler.py and services/chat_service.py while the bot  *)
(* serves.                                                                 *)
(*                                                                         *)
(* The client dispatches every inbound event to handle_message as a task   *)
(* of its own on the one event loop (core/bot.py registers the handler     *)
(* with events.NewMessage() on a client built with the library's default,  *)
(* non-sequential dispatch), so the handlers of several events interleave  *)
(* at their await points and nowhere else.  An action below is the code a  *)
(* handler runs from the moment one await returns (or raises) up to the    *)
(* next await.  The await of a message to the service chat that is the     *)
(* handler's last statement is not a step of its own: its failure is       *)
(* swallowed (lines 569-574) and the handler touches nothing after it.     *)
(*                                                                         *)
(* A task record:                                                          *)
(*   ev            the event: chat, sender, text, media, reply_to          *)
(*   pc            the await the handler is suspended in: "get_sender",    *)
(*                 "mark_read", "download", "vision", "generate",          *)
(*                 "respond", or an await of the summary flow (listed      *)
(*                 with it); "done" after handle_message returned,         *)
(*                 "escaped" after an exception left handle_message        *)
(*   failed        the external call that failed for this event, or "none" *)
(*   out           the messages this handler sent, in order: destination   *)
(*                 and kind                                                *)
(*   appended      the roles of the entries this handler appended to its   *)
(*                 chat's history, in order                                *)
(*   recorded      the ids this handler appended to sent_message_ids       *)
(*   gen_requests  calls of chat_service.generate_response                 *)
(*   is_random     the is_random argument of the generation, if any        *)
(*   prompt        the system prompt chosen, "none" before                 *)
(*   used_model    the model name the worker thread read, "none" before    *)
(*   calls         the backend calls handed to the executor for this       *)
(*                 event, in order: kind ("vision", "text"), the model     *)
(*                 name current when run_in_executor was called, and       *)
(*                 state "queued", "running" or "returned"                 *)
(*   temp_file     the temporary file of _download_image: "none",          *)
(*                 "exists" or "removed"                                   *)
(* An entry of a history: role, the index ev of the task that appended it, *)
(* and a tag for the shape of its content.                                 *)

QueueMaxLen == 100                \* deque(maxlen=100) of a chat's history
RingMaxLen == 100                 \* deque(maxlen=100) of sent ids
main_chat_id == -1                \* config.main_chat_id
service_chat_id == -9             \* config.service_chat_id
config_message_probability == 10  \* config.message_probability, 0.1
admin_username == "admin"         \* config.admin_username

\* the chats inbound events come from: a one-to-one chat (id > 0) and a
\* group chat; the service chat is a dedicated chat and none of them
Chats == {1, -1}
MsgIds == 1..MaxMsgId

\* The text of a message, by what the handlers look at:
\*   cmd  "none", or the command its text starts with: "clear" (`!забудь
\*        все`), "prob" (`!вероятность`), "model" (`!модель`), "vision"
\*        (`!vision`), "status" (`!статус`), "summary" (`!<n> сообщений`)
\*   arg  what follows the command word: "missing" (split finds no second
\*        item), "bad" (float() raises ValueError), "nan", "number" (a
\*        number, num percent), or the model name of `!модель`, `!vision`
\*   num  the number given, in percent for "prob", the count for "summary"
\*   kw   the text contains one of config.keywords
NoText == [cmd |-> "none", arg |-> "none", kw |-> FALSE, num |-> 0]
Command(cmd, arg, num) == [NoText EXCEPT !.cmd = cmd, !.arg = arg, !.num = num]
Event(chat, sender, text, media, reply_to) ==
    [chat |-> chat, sender |-> sender, text |-> text, media |-> media,
     reply_to |-> reply_to]

NewTask(e) ==
    [ev |-> e, pc |-> "get_sender", failed |-> "none", out |-> <<>>,
     appended |-> <<>>, recorded |-> <<>>, gen_requests |-> 0,
     is_random |-> FALSE, prompt |-> "none", used_model |-> "none",
     calls |-> <<>>, temp_file |-> "none"]

\* the state the handler code reads and writes, as one record
Cur ==
    [queues |-> chat_queues, ring |-> sent_message_ids,
     prob |-> message_probability, model |-> model,
     vision_model |-> vision_model, tasks |-> tasks, executor |-> executor]

Install(s) ==
    /\ chat_queues' = s.queues
    /\ sent_message_ids' = s.ring
    /\ message_probability' = s.prob
    /\ model' = s.model
    /\ vision_model' = s.vision_model
    /\ tasks' = s.tasks
    /\ executor' = s.executor
    /\ UNCHANGED client

\* deque.append on a deque(maxlen=n) that drops nothing when full
deque_append_unbounded(q, x, n) == Append(q, x)

\* deque.append on a deque(maxlen=n): a full deque drops its oldest item
deque_append(q, x, n) ==
    IF Len(q) >= n THEN Append(Tail(q), x) ELSE Append(q, x)

finish(s, i) == [s EXCEPT !.tasks[i].pc = "done"]

fail_with(s, i, why) == [s EXCEPT !.tasks[i].failed = why]

send_to(s, i, to, what) ==
    [s EXCEPT !.tasks[i].out = Append(@, [to |-> to, what |-> what])]

\* _send_service_message, lines 569-574
send_service_message(s, i, what) == send_to(s, i, service_chat_id, what)

\* _send_error_to_service, lines 576-584
send_error_to_service(s, i) == send_service_message(s, i, "diagnostic")

\* _send_error_response as it was before it was emptied: the error text goes
\* to the chat of the event
send_error_response_to_chat(s, i) ==
    send_to(s, i, s.tasks[i].ev.chat, "error")

\* _send_error_response, lines 539-543: `pass`
send_error_response(s, i) == s

\* self.chat_queues[event.chat_id].append({"role": ..., "content": ...})
append_entry(s, i, role, tag) ==
    [s EXCEPT !.queues[s.tasks[i].ev.chat] =
                  deque_append(@, [role |-> role, ev |-> i, tag |-> tag],
                               QueueMaxLen),
              !.tasks[i].appended = Append(@, role)]

\* loop.run_in_executor(self.executor, lambda: ...), chat_service.py lines
\* 45-48 and 70-80: the call is queued for the worker thread
run_in_executor(s, i, kind, at) ==
    [s EXCEPT !.executor.queue = Append(@, i),
              !.tasks[i].pc = at,
              !.tasks[i].calls =
                  Append(@, [kind |-> kind,
                             issued |-> IF kind = "vision" THEN s.vision_model
                                        ELSE s.model,
                             state |-> "queued"])]

\* the second definition of _generate_and_send_response, lines 488-521 (it
\* replaces the first, lines 324-357), up to the await of the executor; with
\* ChatService.generate_response, lines 38-58
generate_and_send_response(s, i, is_random) ==
    LET chat == s.tasks[i].ev.chat
        prompt == IF chat = main_chat_id
                  THEN (IF is_random THEN "self_chat" ELSE "main_chat")
                  ELSE "informal"
        s1 == [s EXCEPT !.tasks[i].is_random = is_random,
                        !.tasks[i].prompt = prompt,
                        !.tasks[i].gen_requests = @ + 1]
    IN  IF client = "None"
        THEN \* line 41 raises ChatServiceError, caught at line 516
             finish(send_error_response(fail_with(s1, i, "not_connected"), i), i)
        ELSE run_in_executor(s1, i, "text", "generate")

\* _should_respond_to_message looking at the keywords only
should_respond_to_keyword_only(s, i) == s.tasks[i].ev.text.kw

\* _should_respond_to_message, lines 470-478
should_respond_to_message(s, i) ==
    \/ \E k \in 1..Len(s.ring) : s.ring[k] = s.tasks[i].ev.reply_to
    \/ s.tasks[i].ev.text.kw

\* _should_respond_to_image, lines 166-174
should_respond_to_image(s, i, desc_kw) ==
    \/ \E k \in 1..Len(s.ring) : s.ring[k] = s.tasks[i].ev.reply_to
    \/ s.tasks[i].ev.text.kw
    \/ desc_kw

\* _should_respond_randomly without the condition on the queue length
should_respond_randomly_any_length(s, i, below) == below

\* _should_respond_randomly, lines 480-486; below: random.random() <
\* self.message_probability
should_respond_randomly(s, i, below) ==
    /\ below
    /\ Len(s.queues[s.tasks[i].ev.chat]) > 5

\* the values random.random() < self.message_probability can take
Draws(prob) == {b \in BOOLEAN : (b => prob > 0) /\ (~b => prob < 100)}

\* line 460 with no chat taken for a one-to-one chat
is_private_never(chat) == FALSE

\* line 460: event.chat_id > 0
is_private(chat) == chat > 0

\* _handle_text_message, lines 451-468
handle_text_message(s, i, below) ==
    LET s1 == append_entry(s, i, "user", "text")
    IN  IF is_private(s.tasks[i].ev.chat)
        THEN generate_and_send_response(s1, i, FALSE)
        ELSE IF should_respond_to_message(s1, i)
             THEN generate_and_send_response(s1, i, FALSE)
        ELSE IF should_respond_randomly(s1, i, below)
             THEN generate_and_send_response(s1, i, TRUE)
        ELSE finish(s1, i)

\* line 178 with every sender taken for the administrator
is_admin_anyone(sender) == TRUE

\* line 178: sender_username != self.config.admin_username
is_admin(sender) == sender = admin_username

\* line 184 clearing every chat's queue
clear_every_queue(queues, chat) == [c \in DOMAIN queues |-> <<>>]

\* line 184: self.chat_queues.get(event.chat_id, deque()).clear(); the queue
\* of the chat exists since line 33
clear_queue(queues, chat) == [queues EXCEPT ![chat] = <<>>]

\* line 193 without the upper limit
probability_accepted_unbounded(percent) == 0 <= percent

\* lines 191-193: probability = float(...) / 100; 0 <= probability <= 1,
\* on the number given in percent
probability_accepted(percent) == 0 <= percent /\ percent <= 100

\* the feedback of a command sent to the chat the command came from
command_feedback_to_chat(s, i, what) == send_to(s, i, s.tasks[i].ev.chat, what)

\* the _send_service_message calls of lines 185-234
command_feedback(s, i, what) == send_service_message(s, i, what)

\* _handle_admin_commands, lines 176-237: [handled, s]
handle_admin_commands(s, i) ==
    LET e == s.tasks[i].ev
        t == e.text
        yes(s1) == [handled |-> TRUE, s |-> s1]
    IN  IF ~is_admin(e.sender) THEN [handled |-> FALSE, s |-> s]
        ELSE IF t.cmd = "clear"
        THEN yes(command_feedback(
                 [s EXCEPT !.queues = clear_queue(@, e.chat)], i, "cleared"))
        ELSE IF t.cmd = "prob"
        THEN IF t.arg \in {"missing", "bad"}
             THEN \* IndexError or ValueError, lines 199-200
                  yes(command_feedback(s, i, "bad_format"))
             ELSE IF t.arg = "number" /\ probability_accepted(t.num)
             THEN yes(command_feedback([s EXCEPT !.prob = t.num], i,
                                       "probability_set"))
             ELSE \* out of range, or nan, which no comparison accepts
                  yes(command_feedback(s, i, "out_of_range"))
        ELSE IF t.cmd = "model"
        THEN IF t.arg = "missing"
             THEN yes(command_feedback(s, i, "bad_format"))
             ELSE yes(command_feedback([s EXCEPT !.model = t.arg], i,
                                       "model_set"))
        ELSE IF t.cmd = "vision"
        THEN IF t.arg = "missing"
             THEN yes(command_feedback(s, i, "bad_format"))
             ELSE yes(command_feedback([s EXCEPT !.vision_model = t.arg], i,
                                       "vision_set"))
        ELSE IF t.cmd = "status"
        THEN yes(command_feedback(s, i, "status"))
        ELSE [handled |-> FALSE, s |-> s]

\* lines 110-120 without the message to the service chat
analysis_failed_silent(s, i, why) ==
    finish(append_entry(fail_with(s, i, why), i, "user", "analysis_failed"), i)

\* what _handle_media_message does when analyze_image raises, lines 110-120
analysis_failed(s, i, why) ==
    finish(send_error_to_service(
        append_entry(fail_with(s, i, why), i, "user", "analysis_failed"), i), i)

\* analyze_image, services/chat_service.py lines 60-90, up to the await of
\* the executor
analyze_image(s, i) ==
    IF client = "None"
    THEN analysis_failed(s, i, "vision_not_connected")
    ELSE run_in_executor(s, i, "vision", "vision")

\* the one-to-one chat of the bot with a sender: the entity `sender` that
\* telegram_client.send_message(sender, ...) is given at lines 289-320
user_id(sender) == IF sender = admin_username THEN 2 ELSE 1

\* the private send of the summary flow going to the chat of the command
send_private_to_origin(s, i, what) == send_to(s, i, s.tasks[i].ev.chat, what)

\* telegram_client.send_message(sender, ...), lines 289, 299, 314 and 318
send_private(s, i, what) == send_to(s, i, user_id(s.tasks[i].ev.sender), what)

\* _handle_summary_command, lines 239-262, up to the await of get_sender:
\* [handled, s].  The pattern of line 243 admits digits only, so the count
\* is never negative and int() does not raise.
handle_summary_command(s, i) ==
    LET t == s.tasks[i].ev.text
    IN  IF t.cmd # "summary" THEN [handled |-> FALSE, s |-> s]
        ELSE IF t.num <= 0
        THEN [handled |-> TRUE,
              s |-> finish(send_service_message(s, i, "count_too_small"), i)]
        ELSE IF t.num > 1000
        THEN [handled |-> TRUE,
              s |-> finish(send_service_message(s, i, "count_too_large"), i)]
        ELSE [handled |-> TRUE,
              s |-> [s EXCEPT !.tasks[i].pc = "summary_sender"]]

\* handle_message, lines 42-55, with the head of _handle_media_message,
\* lines 62-73 and 122-129
route(s, i, below) ==
    LET a == handle_admin_commands(s, i)
        m == handle_summary_command(s, i)
        e == s.tasks[i].ev
    IN  IF a.handled THEN finish(a.s, i)
        ELSE IF m.handled THEN m.s
        ELSE IF e.media = "photo"
             THEN \* _download_image, lines 138-144: the temporary file is
                  \* created and download_media awaited
                  [s EXCEPT !.tasks[i].pc = "download",
                            !.tasks[i].temp_file = "exists"]
        ELSE IF e.media = "other"
             THEN finish(append_entry(s, i, "user", "media"), i)
        ELSE handle_text_message(s, i, below)

Suspended(i, at) == i \in 1..Len(tasks) /\ tasks[i].pc = at

\* the client starts handle_message for an inbound event
dispatch_event(e) ==
    /\ tasks' = Append(tasks, NewTask(e))
    /\ UNCHANGED <<chat_queues, sent_message_ids, message_probability, model,
                   vision_model, client, executor>>
    /\ UNCHANGED <<trimVars, bootVars>>

\* an inbound event arrives, at any moment
new_message(e) ==
    /\ Len(tasks) < MaxEvents
    /\ dispatch_event(e)

\* an inbound event arrives after the handlers of all earlier events ended
new_message_when_idle(e) ==
    /\ Len(tasks) < MaxStoreEvents
    /\ \A i \in 1..Len(tasks) : tasks[i].pc \in {"done", "escaped"}
    /\ dispatch_event(e)

\* lines 24-33: get_sender returns, the chat's queue is created if absent
get_sender_ok(i) ==
    /\ Suspended(i, "get_sender")
    /\ LET chat == tasks[i].ev.chat
           s1 == IF chat \in DOMAIN chat_queues THEN Cur
                 ELSE [Cur EXCEPT !.queues = @ @@ (chat :> <<>>)]
       IN  Install([s1 EXCEPT !.tasks[i].pc = "mark_read"])
    /\ UNCHANGED <<trimVars, bootVars>>

\* line 24 raises (or returns no sender and line 25 raises): the handler of
\* lines 57-60 reads sender_username, which is not bound yet, and the
\* UnboundLocalError leaves handle_message
get_sender_fail(i) ==
    /\ Suspended(i, "get_sender")
    /\ Install([fail_with(Cur, i, "get_sender") EXCEPT !.tasks[i].pc = "escaped"])
    /\ UNCHANGED <<trimVars, bootVars>>

\* lines 36-55: send_read_acknowledge returns and the event is routed
mark_read_ok(i, below) ==
    /\ Suspended(i, "mark_read")
    /\ below \in Draws(message_probability)
    /\ Install(route(Cur, i, below))
    /\ UNCHANGED <<trimVars, bootVars>>

\* line 36 raises: lines 57-60
mark_read_fail(i) ==
    /\ Suspended(i, "mark_read")
    /\ Install(finish(send_error_to_service(fail_with(Cur, i, "mark_read"), i), i))
    /\ UNCHANGED <<trimVars, bootVars>>

\* _download_image returns the bytes, lines 136-153; lines 84-93
download_ok(i) ==
    /\ Suspended(i, "download")
    /\ Install(analyze_image([Cur EXCEPT !.tasks[i].temp_file = "removed"], i))
    /\ UNCHANGED <<trimVars, bootVars>>

\* lines 74-82 going on to the analysis after the placeholder was stored
download_failed_goes_on(s, i, why) ==
    analyze_image(append_entry(fail_with(s, i, why), i,
                               "user", "download_failed"), i)

\* _download_image returned None (lines 155-157, which remove no file):
\* lines 74-82 store the placeholder and return
download_failed(s, i, why) ==
    finish(append_entry(fail_with(s, i, why), i, "user", "download_failed"), i)

\* download_media raises, line 144
download_fail(i) ==
    /\ Suspended(i, "download")
    /\ Install(download_failed(Cur, i, "download"))
    /\ UNCHANGED <<trimVars, bootVars>>

\* download_media returns and open or read raises, lines 147-148
read_fail(i) ==
    /\ Suspended(i, "download")
    /\ Install(download_failed(Cur, i, "read"))
    /\ UNCHANGED <<trimVars, bootVars>>

\* a pool whose thread takes a call while it runs another
worker_idle_always(ex) == TRUE

\* ThreadPoolExecutor(max_workers=1), chat_service.py line 19: the one
\* thread takes a call only when it runs none
worker_idle(ex) == ex.running = 0

\* the worker thread of the executor (max_workers = 1) takes the next call
\* and evaluates its lambda, which reads self.model or self.vision_model
worker_start ==
    /\ worker_idle(executor)
    /\ executor.queue # <<>>
    /\ LET i == Head(executor.queue)
           name == IF tasks[i].pc = "vision" THEN vision_model ELSE model
       IN  /\ executor' = [queue |-> Tail(executor.queue), running |-> i]
           /\ tasks' = [tasks EXCEPT
                           ![i].used_model = name,
                           ![i].calls[Len(tasks[i].calls)].state = "running"]
    /\ UNCHANGED <<chat_queues, sent_message_ids, message_probability, model,
                   vision_model, client>>
    /\ UNCHANGED <<trimVars, bootVars>>

Running(i, at) == Suspended(i, at) /\ executor.running = i

\* the call the worker thread runs returns or raises: the thread is free
release(s) ==
    LET i == s.executor.running
    IN  [s EXCEPT !.executor.running = 0,
                  !.tasks[i].calls[Len(s.tasks[i].calls)].state = "returned"]

\* lines 105-108 with `if` for `elif`: the random rule is evaluated after
\* the deterministic one answered
respond_to_image_both(s, i, desc_kw, below) ==
    LET s1 == IF should_respond_to_image(s, i, desc_kw)
              THEN generate_and_send_response(s, i, FALSE) ELSE s
    IN  IF should_respond_randomly(s1, i, below)
        THEN generate_and_send_response(s1, i, TRUE)
        ELSE IF s1 = s THEN finish(s, i) ELSE s1

\* lines 105-108: the rules for an image whose entry was stored
respond_to_image(s, i, desc_kw, below) ==
    IF should_respond_to_image(s, i, desc_kw)
    THEN generate_and_send_response(s, i, FALSE)
    ELSE IF should_respond_randomly(s, i, below)
         THEN generate_and_send_response(s, i, TRUE)
    ELSE finish(s, i)

\* the vision call returns a description, lines 95-108
vision_ok(i, desc_kw, below) ==
    /\ Running(i, "vision")
    /\ below \in Draws(message_probability)
    /\ Install(respond_to_image(
                   append_entry(release(Cur), i, "user", "image"),
                   i, desc_kw, below))
    /\ UNCHANGED <<trimVars, bootVars>>

\* the vision call raises or returns no content, lines 110-120
vision_fail(i) ==
    /\ Running(i, "vision")
    /\ Install(analysis_failed(release(Cur), i, "vision"))
    /\ UNCHANGED <<trimVars, bootVars>>

\* generate_response returns content, lines 509-512 and 523-526
generate_ok(i) ==
    /\ Running(i, "generate")
    /\ Install([release(Cur) EXCEPT !.tasks[i].pc = "respond"])
    /\ UNCHANGED <<trimVars, bootVars>>

\* the backend call raises ("gen_raise") or returns no content
\* ("gen_empty"): ChatServiceError, lines 516-518
generate_fail(i, why) ==
    /\ Running(i, "generate")
    /\ Install(finish(send_error_response(fail_with(release(Cur), i, why), i), i))
    /\ UNCHANGED <<trimVars, bootVars>>

\* lines 535-537 storing the reply although it was not sent
response_not_sent_but_stored(s, i) ==
    finish(send_error_to_service(
        append_entry(fail_with(s, i, "respond"), i, "assistant", "reply"), i), i)

\* event.respond raised: lines 535-537
response_not_sent(s, i) ==
    finish(send_error_to_service(fail_with(s, i, "respond"), i), i)

\* event.respond returns the sent message, lines 526-533
respond_ok(i, id) ==
    /\ Suspended(i, "respond")
    /\ LET s1 == send_to(Cur, i, tasks[i].ev.chat, "reply")
           s2 == [s1 EXCEPT !.ring = deque_append(@, id, RingMaxLen),
                            !.tasks[i].recorded = Append(@, id)]
       IN  Install(finish(append_entry(s2, i, "assistant", "reply"), i))
    /\ UNCHANGED <<trimVars, bootVars>>

\* event.respond raises, lines 535-537
respond_fail(i) ==
    /\ Suspended(i, "respond")
    /\ Install(response_not_sent(Cur, i))
    /\ UNCHANGED <<trimVars, bootVars>>

\* The summary flow.  A handler in it reads nothing of the bot's state but
\* the client and the executor, so the message to the service chat of line
\* 265 is sent in the step that goes on to the await that follows it.
\* Its pcs: "summary_sender" (line 262), "history" (line 286), "summarize"
\* (line 443), "send_summary", "send_no_messages", "send_no_text" (lines
\* 314, 289, 299) and "send_failure_notice" (line 318).

SummaryBackendFailures ==
    {"summary_not_connected", "summary_raise", "summary_empty"}

PrivateSends == {"send_summary", "send_no_messages", "send_no_text"}

\* lines 262-268 and 283-286: get_sender returns, the request is logged to
\* the service chat, iter_messages starts
summary_sender_ok(i) ==
    /\ Suspended(i, "summary_sender")
    /\ Install([send_service_message(Cur, i, "summary_requested")
                    EXCEPT !.tasks[i].pc = "history"])
    /\ UNCHANGED <<trimVars, bootVars>>

\* line 262 raises: lines 275-278
summary_sender_fail(i) ==
    /\ Suspended(i, "summary_sender")
    /\ Install(finish(send_service_message(
                   fail_with(Cur, i, "summary_sender"), i, "summary_error"), i))
    /\ UNCHANGED <<trimVars, bootVars>>

\* _generate_summary, lines 407-449, up to the await of the executor:
\* generate_response raises at line 41 without a client, and line 447 turns
\* every exception into the text "Ошибка при генерации саммари"
generate_summary(s, i) ==
    LET s1 == [s EXCEPT !.tasks[i].gen_requests = @ + 1]
    IN  IF client = "None"
        THEN [fail_with(s1, i, "summary_not_connected")
                  EXCEPT !.tasks[i].pc = "send_summary"]
        ELSE run_in_executor(s1, i, "text", "summarize")

\* _get_chat_history returns, lines 359-389, and lines 288-306; got: "none"
\* (no text message, or iter_messages raised and line 389 returned []),
\* "no_text" (line 400 skips every message) or "text"
chat_history(i, got) ==
    /\ Suspended(i, "history")
    /\ Install(IF got = "none"
               THEN [Cur EXCEPT !.tasks[i].pc = "send_no_messages"]
               ELSE IF got = "no_text"
               THEN [Cur EXCEPT !.tasks[i].pc = "send_no_text"]
               ELSE generate_summary(Cur, i))
    /\ UNCHANGED <<trimVars, bootVars>>

\* the backend call of line 443 returns content, lines 445 and 309-314
summary_ok(i) ==
    /\ Running(i, "summarize")
    /\ Install([release(Cur) EXCEPT !.tasks[i].pc = "send_summary"])
    /\ UNCHANGED <<trimVars, bootVars>>

\* the backend call raises ("summary_raise") or returns no content
\* ("summary_empty"): ChatServiceError, caught at line 447, and the text
\* returned at line 449 is sent as the summary, lines 309-314
summary_fail(i, why) ==
    /\ Running(i, "summarize")
    /\ Install([fail_with(release(Cur), i, why)
                    EXCEPT !.tasks[i].pc = "send_summary"])
    /\ UNCHANGED <<trimVars, bootVars>>

\* what the private message of a pc says
private_message(s, i) ==
    IF s.tasks[i].pc = "send_no_messages" THEN "no_messages"
    ELSE IF s.tasks[i].pc = "send_no_text" THEN "no_text"
    ELSE IF s.tasks[i].failed \in SummaryBackendFailures
    THEN "summary_error_text"
    ELSE "summary"

\* send_message(sender, ...) of line 289, 299 or 314 returns
private_send_ok(i) ==
    /\ i \in 1..Len(tasks) /\ tasks[i].pc \in PrivateSends
    /\ Install(finish(send_private(Cur, i, private_message(Cur, i)), i))
    /\ UNCHANGED <<trimVars, bootVars>>

\* send_message(sender, ...) of line 289, 299 or 314 raises: lines 316-321
private_send_fail(i) ==
    /\ i \in 1..Len(tasks) /\ tasks[i].pc \in PrivateSends
    /\ Install([(IF tasks[i].failed = "none"
                 THEN fail_with(Cur, i, "private_send") ELSE Cur)
                    EXCEPT !.tasks[i].pc = "send_failure_notice"])
    /\ UNCHANGED <<trimVars, bootVars>>

\* the send of line 318 returns; line 322
failure_notice_ok(i) ==
    /\ Suspended(i, "send_failure_notice")
    /\ Install(finish(send_error_to_service(
                   send_private(Cur, i, "failure_notice"), i), i))
    /\ UNCHANGED <<trimVars, bootVars>>

\* the send of line 318 raises inside the handler of line 316: the exception
\* leaves _generate_and_send_summary and lines 275-278 catch it
failure_notice_fail(i) ==
    /\ Suspended(i, "send_failure_notice")
    /\ Install(finish(send_service_message(Cur, i, "summary_error"), i))
    /\ UNCHANGED <<trimVars, bootVars>>

BotIdle ==
    /\ chat_queues = <<>> /\ sent_message_ids = <<>>
    /\ message_probability = 0 /\ model = "none" /\ vision_model = "none"
    /\ client = "None" /\ tasks = <<>>
    /\ executor = [queue |-> <<>>, running |-> 0]

\* MessageHandler.__init__, lines 15-19, and ChatService.__init__, lines
\* 13-19, after start-up; start-up can end with or without a client (SpecBoot)
InitBot ==
    /\ chat_queues = <<>>
    /\ sent_message_ids = <<>>
    /\ message_probability = config_message_probability
    /\ model = "text_model"
    /\ vision_model = "vision_model"
    /\ client \in {"Client", "None"}
    /\ tasks = <<>>
    /\ executor = [queue |-> <<>>, running |-> 0]

\* the inbound events of Spec
Events ==
    {Event(1, "user", NoText, "none", 0),
     Event(-1, "user", NoText, "none", 0),
     Event(-1, "user", [NoText EXCEPT !.kw = TRUE], "none", 0),
     Event(-1, "user", NoText, "none", 1),
     Event(-1, "user", NoText, "photo", 0),
     Event(1, "user", NoText, "photo", 0),
     Event(-1, "user", NoText, "other", 0),
     Event(-1, admin_username, Command("clear", "none", 0), "none", 0)}

----------------------------------------------------------------------------
(* Specifications. *)

NextTrim == Trim

TrimInit == InitTrim /\ BootIdle /\ BotIdle

SpecTrim == TrimInit /\ [][NextTrim]_vars

NextBoot ==
    \/ initialize_loop
    \/ probe_ok
    \/ probe_fail
    \/ sleep_done
    \/ telegram_start_ok
    \/ telegram_start_fail
    \/ initialize_handlers
    \/ dispatch
    \/ disconnected
    \/ startup_failed

Next ==
    \/ \E e \in Events : new_message(e)
    \/ \E i \in 1..Len(tasks) : get_sender_ok(i)
    \/ \E i \in 1..Len(tasks) : get_sender_fail(i)
    \/ \E i \in 1..Len(tasks), below \in BOOLEAN : mark_read_ok(i, below)
    \/ \E i \in 1..Len(tasks) : mark_read_fail(i)
    \/ \E i \in 1..Len(tasks) : download_ok(i)
    \/ \E i \in 1..Len(tasks) : download_fail(i)
    \/ worker_start
    \/ \E i \in 1..Len(tasks), desc_kw, below \in BOOLEAN :
          vision_ok(i, desc_kw, below)
    \/ \E i \in 1..Len(tasks) : vision_fail(i)
    \/ \E i \in 1..Len(tasks) : generate_ok(i)
    \/ \E i \in 1..Len(tasks), why \in {"gen_raise", "gen_empty"} :
          generate_fail(i, why)
    \/ \E i \in 1..Len(tasks), id \in MsgIds : respond_ok(i, id)
    \/ \E i \in 1..Len(tasks) : respond_fail(i)

Init == InitBot /\ TrimIdle /\ BootIdle

Spec == Init /\ [][Next]_vars

\* Long runs of the store: text messages of the one-to-one chat arrive one
\* after the other, every external call succeeds and the transport numbers
\* the replies it sends in increasing order.
InitStore == InitBot /\ client = "Client" /\ TrimIdle /\ BootIdle

NextStore ==
    \/ new_message_when_idle(Event(1, "user", NoText, "none", 0))
    \/ \E i \in 1..Len(tasks) : get_sender_ok(i)
    \/ \E i \in 1..Len(tasks), below \in BOOLEAN : mark_read_ok(i, below)
    \/ worker_start
    \/ \E i \in 1..Len(tasks) : generate_ok(i)
    \/ \E i \in 1..Len(tasks) : respond_ok(i, i)

SpecStore == InitStore /\ [][NextStore]_vars

\* Commands: events arrive one after the other, in the group chat and in the
\* one-to-one chat, from the administrator and from another user; every
\* external call succeeds and the transport numbers the replies it sends.
AdminCommands == {"clear", "prob", "model", "vision", "status"}

CommandTexts ==
    {Command("clear", "none", 0), Command("status", "none", 0),
     Command("model", "x", 0), Command("vision", "y", 0),
     Command("prob", "missing", 0), Command("prob", "bad", 0)}
    \cup {Command("prob", "number", v) : v \in {-1, 0, 100, 101}}

AdminEvents ==
    {Event(-1, admin_username, t, "none", 0) : t \in CommandTexts}
    \cup {Event(-1, admin_username, Command("clear", "none", 0), "photo", 0)}
    \cup {Event(-1, "user", t, "none", 0) :
             t \in {Command("clear", "none", 0), Command("status", "none", 0),
                    Command("prob", "number", 50), Command("model", "x", 0),
                    Command("vision", "y", 0)}}
    \cup {Event(1, "user", NoText, "none", 0),
          Event(1, "user", NoText, "none", 1),
          Event(1, "user", [NoText EXCEPT !.kw = TRUE], "none", 0),
          Event(1, "user", Command("prob", "number", 50), "none", 0)}

\* an event of AdminEvents arrives after the handlers of all earlier events
\* ended
new_command(e) ==
    /\ Len(tasks) < MaxAdminEvents
    /\ \A i \in 1..Len(tasks) : tasks[i].pc \in {"done", "escaped"}
    /\ dispatch_event(e)

NextAdmin ==
    \/ \E e \in AdminEvents : new_command(e)
    \/ \E i \in 1..Len(tasks) : get_sender_ok(i)
    \/ \E i \in 1..Len(tasks), below \in BOOLEAN : mark_read_ok(i, below)
    \/ worker_start
    \/ \E i \in 1..Len(tasks) : generate_ok(i)
    \/ \E i \in 1..Len(tasks) : respond_ok(i, i)

SpecAdmin == InitStore /\ [][NextAdmin]_vars

\* The random rule: messages of the group chat and of the one-to-one chat
\* arrive one after the other, the administrator sets the probability to 0
\* or to 1, every external call succeeds and the transport numbers the
\* replies it sends.
RandomEvents ==
    {Event(-1, "user", NoText, "none", 0),
     Event(-1, "user", [NoText EXCEPT !.kw = TRUE], "none", 0),
     Event(-1, "user", NoText, "none", 1),
     Event(-1, "user", NoText, "photo", 0),
     Event(1, "user", NoText, "none", 0),
     Event(-1, admin_username, Command("prob", "number", 0), "none", 0),
     Event(-1, admin_username, Command("prob", "number", 100), "none", 0)}

\* an event of RandomEvents arrives after the handlers of all earlier
\* events ended
new_chat_message(e) ==
    /\ Len(tasks) < MaxRandomEvents
    /\ \A i \in 1..Len(tasks) : tasks[i].pc \in {"done", "escaped"}
    /\ dispatch_event(e)

NextRandom ==
    \/ \E e \in RandomEvents : new_chat_message(e)
    \/ \E i \in 1..Len(tasks) : get_sender_ok(i)
    \/ \E i \in 1..Len(tasks), below \in BOOLEAN : mark_read_ok(i, below)
    \/ \E i \in 1..Len(tasks) : download_ok(i)
    \/ worker_start
    \/ \E i \in 1..Len(tasks), desc_kw, below \in BOOLEAN :
          vision_ok(i, desc_kw, below)
    \/ \E i \in 1..Len(tasks) : generate_ok(i)
    \/ \E i \in 1..Len(tasks) : respond_ok(i, i)

SpecRandom == InitStore /\ [][NextRandom]_vars

\* Long runs of the ring: messages of the group chat that hold a keyword
\* arrive one after the other and are answered, the transport numbering the
\* replies it sends; once in a run comes a message without keyword that
\* replies to message 1, the id of the first answer.
KeywordMessage == Event(-1, "user", [NoText EXCEPT !.kw = TRUE], "none", 0)
ReplyToFirst == Event(-1, "user", NoText, "none", 1)

Replies == {i \in 1..Len(tasks) : tasks[i].ev = ReplyToFirst}

new_ring_message(e) ==
    /\ Len(tasks) < MaxRingEvents
    /\ \A i \in 1..Len(tasks) : tasks[i].pc \in {"done", "escaped"}
    /\ e = ReplyToFirst => Replies = {}
    /\ dispatch_event(e)

NextRing ==
    \/ \E e \in {KeywordMessage, ReplyToFirst} : new_ring_message(e)
    \/ \E i \in 1..Len(tasks) : get_sender_ok(i)
    \/ \E i \in 1..Len(tasks), below \in BOOLEAN : mark_read_ok(i, below)
    \/ worker_start
    \/ \E i \in 1..Len(tasks) : generate_ok(i)
    \/ \E i \in 1..Len(tasks) : respond_ok(i, i)

SpecRing == InitStore /\ [][NextRing]_vars

\* Summaries: summary commands of the administrator and of another user,
\* from the group chat and from the one-to-one chat, and messages of the group
\* chat that are answered, handled concurrently; the calls of the summary
\* flow succeed or fail.
SummaryEvents ==
    {Event(-1, "user", Command("summary", "none", n), "none", 0) :
        n \in {0, 5, 1001}}
    \cup {Event(-1, admin_username, Command("summary", "none", 5), "none", 0),
          Event(1, "user", Command("summary", "none", 5), "none", 0),
          Event(-1, "user", [NoText EXCEPT !.kw = TRUE], "none", 0)}

new_summary_request(e) ==
    /\ Len(tasks) < MaxSummaryEvents
    /\ dispatch_event(e)

NextSummary ==
    \/ \E e \in SummaryEvents : new_summary_request(e)
    \/ \E i \in 1..Len(tasks) : get_sender_ok(i)
    \/ \E i \in 1..Len(tasks), below \in BOOLEAN : mark_read_ok(i, below)
    \/ \E i \in 1..Len(tasks) : summary_sender_ok(i)
    \/ \E i \in 1..Len(tasks) : summary_sender_fail(i)
    \/ \E i \in 1..Len(tasks), got \in {"none", "no_text", "text"} :
          chat_history(i, got)
    \/ worker_start
    \/ \E i \in 1..Len(tasks) : summary_ok(i)
    \/ \E i \in 1..Len(tasks), why \in {"summary_raise", "summary_empty"} :
          summary_fail(i, why)
    \/ \E i \in 1..Len(tasks) : private_send_ok(i)
    \/ \E i \in 1..Len(tasks) : private_send_fail(i)
    \/ \E i \in 1..Len(tasks) : failure_notice_ok(i)
    \/ \E i \in 1..Len(tasks) : failure_notice_fail(i)
    \/ \E i \in 1..Len(tasks) : generate_ok(i)
    \/ \E i \in 1..Len(tasks) : respond_ok(i, i)

SpecSummary == Init /\ [][NextSummary]_vars

\* Images: photos of the group chat and of the one-to-one chat, with and
\* without a keyword in the caption, handled concurrently; every call of
\* the image path succeeds or fails.
ImageEvents ==
    {Event(-1, "user", NoText, "photo", 0),
     Event(-1, "user", [NoText EXCEPT !.kw = TRUE], "photo", 0),
     Event(-1, "user", NoText, "photo", 1),
     Event(1, "user", NoText, "photo", 0)}

new_image_message(e) ==
    /\ Len(tasks) < MaxImageEvents
    /\ dispatch_event(e)

NextImage ==
    \/ \E e \in ImageEvents : new_image_message(e)
    \/ \E i \in 1..Len(tasks) : get_sender_ok(i)
    \/ \E i \in 1..Len(tasks), below \in BOOLEAN : mark_read_ok(i, below)
    \/ \E i \in 1..Len(tasks) : download_ok(i)
    \/ \E i \in 1..Len(tasks) : download_fail(i)
    \/ \E i \in 1..Len(tasks) : read_fail(i)
    \/ worker_start
    \/ \E i \in 1..Len(tasks), desc_kw, below \in BOOLEAN :
          vision_ok(i, desc_kw, below)
    \/ \E i \in 1..Len(tasks) : vision_fail(i)
    \/ \E i \in 1..Len(tasks) : generate_ok(i)
    \/ \E i \in 1..Len(tasks), why \in {"gen_raise", "gen_empty"} :
          generate_fail(i, why)
    \/ \E i \in 1..Len(tasks), id \in MsgIds : respond_ok(i, id)
    \/ \E i \in 1..Len(tasks) : respond_fail(i)

SpecImage == Init /\ [][NextImage]_vars

\* Backend calls and model names: messages that call the backend and the
\* administrator's model commands, with a name, with an empty name and
\* with none, are handled concurrently; every external call succeeds.
ModelEvents ==
    {Event(1, "user", NoText, "none", 0),
     Event(-1, "user", [NoText EXCEPT !.kw = TRUE], "photo", 0),
     Event(-1, admin_username, Command("model", "x", 0), "none", 0),
     Event(-1, admin_username, Command("vision", "y", 0), "none", 0),
     Event(-1, admin_username, Command("model", "", 0), "none", 0),
     Event(-1, admin_username, Command("vision", "missing", 0), "none", 0)}

new_model_event(e) ==
    /\ Len(tasks) < MaxModelEvents
    /\ dispatch_event(e)

NextModel ==
    \/ \E e \in ModelEvents : new_model_event(e)
    \/ \E i \in 1..Len(tasks) : get_sender_ok(i)
    \/ \E i \in 1..Len(tasks) : mark_read_ok(i, FALSE)
    \/ \E i \in 1..Len(tasks) : download_ok(i)
    \/ worker_start
    \/ \E i \in 1..Len(tasks) : vision_ok(i, FALSE, FALSE)
    \/ \E i \in 1..Len(tasks) : generate_ok(i)
    \/ \E i \in 1..Len(tasks) : respond_ok(i, i)

SpecModel == InitStore /\ [][NextModel]_vars

BootInit == InitBoot /\ TrimIdle /\ BotIdle

\* The event loop runs a coroutine that can take a step, and a probe or a
\* sleep that was started returns: weak fairness of the steps of initialize.
SpecBoot ==
    BootInit /\ [][NextBoot]_vars /\ WF_vars(ConnectStep)

----------------------------------------------------------------------------
(* Claims about limit_messages_by_tokens. *)

RECURSIVE SumQuarter(_)
\* the fallback cost summed message by message: len(content) / 4 rounded down
SumQuarter(s) ==
    IF s = <<>> THEN 0 ELSE (Head(s).len \div 4) + SumQuarter(Tail(s))

t_fallback == UsesFallback(t_messages, t_limit, t_enc)

\* the estimated cost of msgs under the strategy the call used
EstimatedCost(msgs, fallback) ==
    IF fallback THEN SumQuarter(msgs) ELSE SumOf(msgs, "tok")

t_omits == t_pc = "done" /\ Len(t_result) < Len(t_messages)

\* the result with the newest omitted message put back in front of it
t_extended == <<t_messages[Len(t_messages) - Len(t_result)]>> \o t_result

\* C1: the value returned is a contiguous suffix of the input, in the
\* input's order, and its summed estimated cost (under the strategy the call
\* used, and as count_tokens estimates it) is at most the budget; the empty
\* input gives the empty result.
C1_TrimSuffixWithinBudget ==
    t_pc = "done" =>
        /\ IsSuffix(t_result, t_messages)
        /\ EstimatedCost(t_result, t_fallback) <= t_limit
        /\ count_tokens(t_result, t_enc) <= t_limit
        /\ (t_messages = <<>> => t_result = <<>>)

\* a call that kept some messages and dropped some
C1_Witness ==
    /\ t_pc = "done"
    /\ Len(t_result) >= 2
    /\ Len(t_result) < Len(t_messages)

\* C2 as stated: whenever a message is omitted, putting the newest omitted
\* message back makes the summed estimated cost exceed the budget, the
\* fallback cost of a message being len(content) / 4 rounded down.
C2_MaximalUnderRoundedCost ==
    t_omits => EstimatedCost(t_extended, t_fallback) > t_limit

\* C2 amended: whenever a message is omitted, putting the newest omitted
\* message back exceeds what the strategy in use compares: the token sum
\* exceeds token_limit under the tokenizer, the character sum exceeds
\* 4 * token_limit under the fallback.
C2_MaximalUnderComparedCost ==
    t_omits =>
        IF t_fallback THEN SumOf(t_extended, "len") > 4 * t_limit
        ELSE SumOf(t_extended, "tok") > t_limit

\* a fallback call that omits a message whose rounded cost would still fit
C2_Witness ==
    /\ t_omits
    /\ t_fallback
    /\ EstimatedCost(t_extended, TRUE) <= t_limit

\* the last k messages of s
Newest(s, k) == SubSeq(s, Len(s) - k + 1, Len(s))

\* the longest suffix of s whose summed cost f is within budget
LongestFitting(s, f, budget) ==
    LET fits == {k \in 0..Len(s) : SumOf(Newest(s, k), f) <= budget}
    IN  Newest(s, CHOOSE k \in fits : \A j \in fits : j <= k)

\* C28: the result of one call is the longest suffix that fits under one
\* cost for all its messages: the character count against 4 * token_limit
\* when the encoding is unavailable or encode raised on a message the loop
\* reached (nothing accepted under the tokenizer before the exception is
\* kept for that reason), the token count against token_limit otherwise.
C28_OneStrategyPerCall ==
    t_pc = "done" =>
        t_result = IF t_fallback
                   THEN LongestFitting(t_messages, "len", 4 * t_limit)
                   ELSE LongestFitting(t_messages, "tok", t_limit)

\* encode raised on an older message after the newest one had been accepted
\* under the tokenizer, and the fallback dropped that newest message
C28_Witness ==
    /\ t_pc = "done"
    /\ t_enc /\ t_fallback
    /\ Len(t_messages) >= 2
    /\ ~t_messages[Len(t_messages)].bad
    /\ t_messages[Len(t_messages)].tok <= t_limit
    /\ t_result = <<>>

----------------------------------------------------------------------------
(* Claims about start-up. *)

connected == b_client = "Client"

AllFailed(ps) == \A i \in 1..Len(ps) : ps[i] = FALSE

\* C8 as stated: for every max_attempts >= 0, initialize returning normally
\* means the client is set; without a client the handler is never
\* registered, no event is handled, and the process ends with exit code 1.
C8_ServesOnlyConnected ==
    /\ connect_result = "returned" => connected
    /\ registered => connected
    /\ served > 0 => connected
    /\ (b_pc = "exited" /\ ~connected) => exit_code = 1

\* what holds of initialize at every moment, for max_attempts >= 1
ConnectSafety ==
    max_attempts >= 1 =>
        /\ Len(probes) <= max_attempts
        /\ \A i \in 1..(Len(probes) - 1) : probes[i] = FALSE
        /\ sleeps <= Len(probes)
        /\ connect_result # "running" =>
            /\ Len(probes) >= 1
            /\ sleeps = Len(probes) - 1
            /\ connect_result = "returned" <=> probes[Len(probes)] = TRUE
            /\ connect_result = "raised" <=>
                   (Len(probes) = max_attempts /\ AllFailed(probes))
            /\ connect_result = "returned" <=> connected

\* C9: for max_attempts >= 1 initialize ends; it probes at most
\* max_attempts times, only its last probe can have succeeded (it returns at
\* the first success), it has slept once between two probes and not after
\* the last, and it raised exactly when max_attempts probes all failed.
C9_ConnectTerminates ==
    /\ []ConnectSafety
    /\ (max_attempts >= 1) => <>(connect_result # "running")

\* initialize raised after a sleep: every probe failed, the last one without
\* a sleep after it
C9_Witness ==
    /\ max_attempts >= 2
    /\ connect_result = "raised"
    /\ sleeps = max_attempts - 1

----------------------------------------------------------------------------
(* Claims about the message handler. *)

Tasks == 1..Len(tasks)

Ended(i) == tasks[i].pc \in {"done", "escaped"}

\* the handler of task i still has the routing of lines 42-55 ahead
Pending(i) == tasks[i].pc \in {"get_sender", "mark_read"}

\* the handler of task i has routed its event (lines 42-55 ran)
Routed(i) ==
    /\ ~Pending(i)
    /\ tasks[i].failed \notin {"get_sender", "mark_read"}

IsCommand(i) ==
    tasks[i].ev.sender = admin_username /\ tasks[i].ev.text.cmd # "none"

Sent(i, to, what) ==
    \E k \in 1..Len(tasks[i].out) :
        tasks[i].out[k].to = to /\ tasks[i].out[k].what = what

SentTo(i, to) == \E k \in 1..Len(tasks[i].out) : tasks[i].out[k].to = to

Has(seq, x) == \E k \in 1..Len(seq) : seq[k] = x

GenerationFailures == {"gen_raise", "gen_empty", "not_connected"}
AnalysisFailures == {"vision", "vision_not_connected"}

\* C3 as stated: within one chat the user entries are stored in the order
\* their events arrived, and the effect of a command is applied before any
\* event that arrived after it in the same chat is routed.
C3_ArrivalOrder ==
    /\ \A c \in DOMAIN chat_queues :
        \A j, k \in 1..Len(chat_queues[c]) :
            (j < k /\ chat_queues[c][j].role = "user"
                   /\ chat_queues[c][k].role = "user")
                => chat_queues[c][j].ev < chat_queues[c][k].ev
    /\ \A a, b \in Tasks :
        (a < b /\ tasks[a].ev.chat = tasks[b].ev.chat /\ IsCommand(a)
               /\ Routed(b))
            => ~Pending(a)

\* C4 as stated: a handler whose response generation failed has sent a
\* diagnostic to the service chat.
C4_GenerationFailureDiagnosed ==
    \A i \in Tasks :
        (tasks[i].pc = "done" /\ tasks[i].failed \in GenerationFailures)
            => Sent(i, service_chat_id, "diagnostic")

\* C5: a handler whose response generation or image analysis failed has
\* sent nothing to the chat of its event, appended no assistant entry and
\* recorded no sent id.
C5_FailureSilentInChat ==
    \A i \in Tasks :
        tasks[i].failed \in GenerationFailures \cup AnalysisFailures =>
            /\ ~SentTo(i, tasks[i].ev.chat)
            /\ ~Has(tasks[i].appended, "assistant")
            /\ tasks[i].recorded = <<>>
            /\ \A c \in DOMAIN chat_queues :
                 \A k \in 1..Len(chat_queues[c]) :
                    ~(chat_queues[c][k].ev = i
                        /\ chat_queues[c][k].role = "assistant")

\* both kinds of failure happened, each handler has returned
C5_Witness ==
    \E i, j \in Tasks :
        /\ tasks[i].pc = "done" /\ tasks[i].failed \in {"gen_raise", "gen_empty"}
        /\ tasks[j].pc = "done" /\ tasks[j].failed = "vision"

\* C6 as stated: no exception leaves handle_message.
C6_NothingEscapes == \A i \in Tasks : tasks[i].pc # "escaped"

\* C7 as stated: after a failed mark-read a message that is no command is
\* still appended to its chat's history as a user entry.
C7_MarkReadFailureTolerated ==
    \A i \in Tasks :
        (tasks[i].pc = "done" /\ tasks[i].failed = "mark_read"
            /\ ~IsCommand(i))
            => Has(tasks[i].appended, "user")

\* no history and no ring holds more than its maxlen
StoreBounded ==
    /\ Len(sent_message_ids) <= RingMaxLen
    /\ \A c \in DOMAIN chat_queues : Len(chat_queues[c]) <= QueueMaxLen

EvictsOldest(q, r, n) ==
    (Len(q) = n /\ r # q) =>
        /\ Len(r) = n
        /\ SubSeq(r, 1, n - 1) = Tail(q)
        /\ ~Has(q, r[n])

\* C10: a history never holds more than 100 entries, the ring never more
\* than 100 ids, and an append to a full history or ring drops exactly the
\* oldest item and keeps the others in their order, the new item last.
C10_StoreBounded ==
    /\ []StoreBounded
    /\ [][/\ EvictsOldest(sent_message_ids, sent_message_ids', RingMaxLen)
          /\ \A c \in DOMAIN chat_queues :
               EvictsOldest(chat_queues[c], chat_queues'[c], QueueMaxLen)]_vars

\* the history of the chat and the ring are full and have each dropped
\* their oldest item
C10_Witness ==
    /\ 1 \in DOMAIN chat_queues
    /\ Len(chat_queues[1]) = QueueMaxLen
    /\ chat_queues[1][1].ev > 1
    /\ Len(sent_message_ids) = RingMaxLen
    /\ sent_message_ids[1] > 1

----------------------------------------------------------------------------
(* Claims about the commands. *)

FromAdmin(i) == tasks[i].ev.sender = admin_username

IsClear(i) == FromAdmin(i) /\ tasks[i].ev.text.cmd = "clear"

\* the handler of task i has applied its command and returned
Applied(i) == tasks[i].pc = "done" /\ tasks[i].failed = "none"

\* C11 as stated: once the administrator's `!забудь все` was applied in a
\* chat, the chat's history holds no entry that belongs to an event that
\* arrived before the command, neither its user entry nor the reply to it;
\* it is empty until a later message is stored and then holds that message.
C11_NothingFromBeforeClear ==
    \A a \in Tasks :
        (IsClear(a) /\ Applied(a)) =>
            \A k \in 1..Len(chat_queues[tasks[a].ev.chat]) :
                chat_queues[tasks[a].ev.chat][k].ev > a

IsAdminCommand(i) == FromAdmin(i) /\ tasks[i].ev.text.cmd \in AdminCommands

\* the step in which the handler of task i routes its event
Routes(i) == tasks[i].pc = "mark_read" /\ tasks'[i].pc # "mark_read"
                /\ tasks'[i].failed = "none"

OtherChatsKept(c) ==
    /\ DOMAIN chat_queues' = DOMAIN chat_queues
    /\ \A d \in DOMAIN chat_queues \ {c} : chat_queues'[d] = chat_queues[d]

SettingsKept ==
    /\ message_probability' = message_probability
    /\ model' = model
    /\ vision_model' = vision_model

\* C12: the step that applies `!забудь все` leaves the chat's queue present
\* and empty and changes no other chat's history, nor the ring, the
\* probability or the model names; applied to a chat whose history is
\* empty already, as a second clear in a row is, it changes nothing of them.
C12_ClearIdempotent ==
    [][\A i \in Tasks :
         (IsClear(i) /\ Routes(i)) =>
            LET c == tasks[i].ev.chat
            IN  /\ c \in DOMAIN chat_queues'
                /\ chat_queues'[c] = <<>>
                /\ OtherChatsKept(c)
                /\ sent_message_ids' = sent_message_ids
                /\ SettingsKept
                /\ chat_queues[c] = <<>> => chat_queues' = chat_queues]_vars

\* the group chat was cleared twice in a row while the one-to-one chat has
\* a history
C12_Witness ==
    \E a \in Tasks :
        /\ a + 1 \in Tasks
        /\ IsClear(a) /\ Applied(a) /\ IsClear(a + 1) /\ Applied(a + 1)
        /\ tasks[a].ev.chat = -1 /\ tasks[a + 1].ev.chat = -1
        /\ chat_queues[-1] = <<>>
        /\ 1 \in DOMAIN chat_queues /\ chat_queues[1] # <<>>

IsProb(i) == FromAdmin(i) /\ tasks[i].ev.text.cmd = "prob"

InRange(i) ==
    /\ tasks[i].ev.text.arg = "number"
    /\ 0 <= tasks[i].ev.text.num /\ tasks[i].ev.text.num <= 100

\* C13: the probability is always within 0..100 percent; the step that
\* applies the administrator's `!вероятность <v>` sets it to v percent when
\* 0 <= v <= 100, and otherwise (v out of range, missing or not a number)
\* leaves it as it was and sends feedback to the service chat.
C13_ProbabilityCommand ==
    /\ [](message_probability \in 0..100)
    /\ [][\A i \in Tasks :
            (IsProb(i) /\ Routes(i)) =>
                IF InRange(i)
                THEN message_probability' = tasks[i].ev.text.num
                ELSE /\ message_probability' = message_probability
                     /\ tasks'[i].out # <<>>
                     /\ \A k \in 1..Len(tasks'[i].out) :
                          /\ tasks'[i].out[k].to = service_chat_id
                          /\ tasks'[i].out[k].what
                               \in {"bad_format", "out_of_range"}]_vars

\* `!вероятность 0` was applied and a later `!вероятность 101` rejected
C13_Witness ==
    \E a, b \in Tasks :
        /\ a < b /\ IsProb(a) /\ IsProb(b) /\ Applied(a) /\ Applied(b)
        /\ tasks[a].ev.text.num = 0 /\ InRange(a)
        /\ tasks[b].ev.text.num = 101
        /\ message_probability = 0

HandledAtOnce(i) == tasks[i].pc \in {"get_sender", "mark_read", "done", "escaped"}

StoredBy(i) ==
    \E c \in DOMAIN chat_queues :
        \E k \in 1..Len(chat_queues[c]) : chat_queues[c][k].ev = i

\* C16: the handler of a recognized command of the administrator returns
\* from the routing step: it never waits for a download, a backend call or
\* a reply, it appends nothing to any history, makes no generation request,
\* no worker thread runs for it, and every message it sends goes to the
\* service chat, none to the chat of the command.
C16_CommandShortCircuits ==
    \A i \in Tasks :
        IsAdminCommand(i) =>
            /\ HandledAtOnce(i)
            /\ tasks[i].appended = <<>>
            /\ ~StoredBy(i)
            /\ tasks[i].gen_requests = 0
            /\ tasks[i].used_model = "none"
            /\ \A k \in 1..Len(tasks[i].out) :
                  tasks[i].out[k].to = service_chat_id
            /\ ~SentTo(i, tasks[i].ev.chat)
            /\ Applied(i) => tasks[i].out # <<>>

\* the administrator's `!забудь все` came as the caption of a photo and was
\* applied, and its feedback went to the service chat
C16_Witness ==
    \E i \in Tasks :
        /\ IsClear(i) /\ tasks[i].ev.media = "photo"
        /\ Applied(i)
        /\ Sent(i, service_chat_id, "cleared")

\* the step is one of the handler of task i
Acts(i) == tasks'[i] # tasks[i]

NoHistoryCleared ==
    \A c \in DOMAIN chat_queues :
        chat_queues[c] # <<>> => chat_queues'[c] # <<>>

CommandFeedback ==
    {"cleared", "bad_format", "out_of_range", "probability_set", "model_set",
     "vision_set", "status"}

IsUserCommandText(i) ==
    /\ ~FromAdmin(i)
    /\ tasks[i].ev.text.cmd \in AdminCommands
    /\ tasks[i].ev.media = "none"

\* C17: no step of the handler of an administrator-command text sent by
\* another user changes the probability or a model name or empties a
\* history; once routed, the message is in its chat's history as a user
\* entry, has drawn no command feedback, has a generation request with the
\* standard prompt when its chat is one-to-one, and is answered in a group
\* chat only through the trigger rules (here: at random, its text holding
\* no keyword and replying to nothing).
C17_UserCommandTextIsNormalText ==
    /\ [][\A i \in Tasks :
            (IsUserCommandText(i) /\ Acts(i)) =>
                SettingsKept /\ NoHistoryCleared]_vars
    /\ [](\A i \in Tasks :
            (IsUserCommandText(i) /\ Routed(i)) =>
                /\ Has(tasks[i].appended, "user")
                /\ \A k \in 1..Len(tasks[i].out) :
                      tasks[i].out[k].what \notin CommandFeedback
                /\ tasks[i].ev.chat > 0 =>
                      tasks[i].gen_requests = 1 /\ ~tasks[i].is_random
                /\ (tasks[i].ev.chat < 0 /\ tasks[i].gen_requests > 0) =>
                      tasks[i].is_random)

\* another user's `!вероятность 50` in the group chat was stored as a user
\* entry after the administrator had set the probability to 0, which it
\* still is
C17_Witness ==
    \E a, i \in Tasks :
        /\ a < i /\ IsProb(a) /\ Applied(a) /\ tasks[a].ev.text.num = 0
        /\ IsUserCommandText(i) /\ tasks[i].ev.text.cmd = "prob"
        /\ tasks[i].ev.chat = -1
        /\ tasks[i].pc = "done" /\ tasks[i].appended = <<"user">>
        /\ message_probability = 0

IsConsumed(i) == IsAdminCommand(i) \/ tasks[i].ev.text.cmd = "summary"

\* C18: a text message of a one-to-one chat that is no command and whose
\* handler reached the routing is in the history as a user entry and has
\* exactly one generation request, with is_random false and the informal
\* or the main-chat prompt, whatever its keywords, its reply target, the
\* probability and the length of the history.
C18_PrivateAlwaysGenerates ==
    \A i \in Tasks :
        (tasks[i].ev.chat > 0 /\ tasks[i].ev.media = "none"
            /\ ~IsConsumed(i) /\ Routed(i)) =>
            /\ Has(tasks[i].appended, "user")
            /\ tasks[i].gen_requests = 1
            /\ ~tasks[i].is_random
            /\ tasks[i].prompt \in {"informal", "main_chat"}

\* with the probability at 0, a one-to-one message with no keyword and no
\* reply target was answered, after an earlier one had been
C18_Witness ==
    \E a, i \in Tasks :
        /\ a < i /\ tasks[a].ev.chat = 1 /\ tasks[i].ev.chat = 1
        /\ tasks[i].ev.text = NoText /\ tasks[i].ev.reply_to = 0
        /\ tasks[i].pc = "done" /\ tasks[i].gen_requests = 1
        /\ tasks[i].recorded # <<>>
        /\ message_probability = 0
        /\ Len(chat_queues[1]) >= 2

----------------------------------------------------------------------------
(* Claims about the trigger rules. *)

\* the step in which the handler of task i asks for a generation
Requests(i) == tasks'[i].gen_requests > tasks[i].gen_requests

LastOf(q) == q[Len(q)]

\* C14: in the step that asks for a stochastic generation (is_random true)
\* the event's text holds no keyword and replies to no id of the ring, the
\* probability is above 0 (a draw can be below it), the history of the chat,
\* with the entry of the event as its last, holds more than 5 entries, and
\* the event is not a text message of a one-to-one chat.
C14_StochasticOnlyAsLastRule ==
    [][\A i \in Tasks :
         (Requests(i) /\ tasks'[i].is_random) =>
            LET e == tasks[i].ev
            IN  /\ ~e.text.kw
                /\ ~Has(sent_message_ids, e.reply_to)
                /\ message_probability > 0
                /\ Len(chat_queues'[e.chat]) > 5
                /\ LastOf(chat_queues'[e.chat]).ev = i
                /\ LastOf(chat_queues'[e.chat]).role = "user"
                /\ ~(e.chat > 0 /\ e.media = "none")]_vars

\* a stochastic generation was asked for and answered for a text message
\* of the group chat, after a message with a keyword had been answered by
\* the keyword rule
C14_Witness ==
    \E a, i \in Tasks :
        /\ a < i
        /\ tasks[a].ev.text.kw /\ tasks[a].gen_requests = 1
        /\ ~tasks[a].is_random
        /\ tasks[i].is_random /\ tasks[i].ev.media = "none"
        /\ tasks[i].pc = "done" /\ tasks[i].recorded # <<>>
        /\ Len(chat_queues[-1]) > 5

IsGroupText(i) ==
    /\ tasks[i].ev.chat < 0 /\ tasks[i].ev.media = "none"
    /\ ~IsConsumed(i)

\* C15: when the handler of a text message of a group chat routes it, a
\* reply to an id that is in the ring makes it ask for one generation with
\* is_random false and a standard prompt, whatever the text, the
\* probability and the length of the history; a reply to an id that is not
\* in the ring (never sent, or dropped from the full ring by later sends),
\* in a text without keyword, makes it ask for none but a stochastic one.
C15_ReplyToTrackedIdTriggers ==
    [][\A i \in Tasks :
         (IsGroupText(i) /\ Routes(i)) =>
            IF Has(sent_message_ids, tasks[i].ev.reply_to)
            THEN /\ tasks'[i].gen_requests = 1
                 /\ ~tasks'[i].is_random
                 /\ tasks'[i].prompt \in {"main_chat", "informal"}
            ELSE ~tasks[i].ev.text.kw =>
                    (tasks'[i].gen_requests > 0 => tasks'[i].is_random)]_vars

\* id 1 was sent and recorded, 100 later sends filled the ring and dropped
\* it, and a reply to message 1 without keyword then drew no generation
C15_Witness ==
    \E i \in Tasks :
        /\ tasks[1].recorded = <<1>>
        /\ Len(sent_message_ids) = RingMaxLen
        /\ ~Has(sent_message_ids, 1)
        /\ tasks[i].ev = ReplyToFirst
        /\ tasks[i].pc = "done" /\ tasks[i].gen_requests = 0
        /\ tasks[i].appended = <<"user">>

----------------------------------------------------------------------------
(* Claims about the summary command. *)

IsSummary(i) == tasks[i].ev.text.cmd = "summary"

Requester(i) == user_id(tasks[i].ev.sender)

SummaryResults ==
    {"summary", "summary_error_text", "no_messages", "no_text",
     "failure_notice"}

HistoriesKept ==
    /\ \A c \in DOMAIN chat_queues :
          c \in DOMAIN chat_queues' /\ chat_queues'[c] = chat_queues[c]
    /\ \A c \in DOMAIN chat_queues' \ DOMAIN chat_queues :
          chat_queues'[c] = <<>>

\* C19: the handler of a summary command issued in a group chat, whoever
\* sent it, sends nothing to that chat: the summary or the notice of a
\* failure goes to the requester's one-to-one chat and everything else to
\* the service chat; the message is stored in no history and draws no
\* reply, and no step of the handler changes the entries of any chat's
\* history (at most it creates the empty queue of the chat) or the ring.
C19_SummaryIsPrivate ==
    /\ [](\A i \in Tasks :
            (IsSummary(i) /\ tasks[i].ev.chat < 0) =>
                /\ ~SentTo(i, tasks[i].ev.chat)
                /\ \A k \in 1..Len(tasks[i].out) :
                      IF tasks[i].out[k].what \in SummaryResults
                      THEN tasks[i].out[k].to = Requester(i)
                      ELSE tasks[i].out[k].to = service_chat_id
                /\ tasks[i].appended = <<>>
                /\ tasks[i].recorded = <<>>
                /\ ~StoredBy(i))
    /\ [][\A i \in Tasks :
            (IsSummary(i) /\ tasks[i].ev.chat < 0 /\ Acts(i)) =>
                HistoriesKept /\ sent_message_ids' = sent_message_ids]_vars

\* a user who is not the administrator asked in the group chat for a
\* summary and got it in the one-to-one chat, while the group chat has a
\* history and the ring an id
C19_Witness ==
    \E i \in Tasks :
        /\ IsSummary(i) /\ tasks[i].ev.chat = -1
        /\ ~FromAdmin(i)
        /\ tasks[i].pc = "done"
        /\ Sent(i, Requester(i), "summary")
        /\ chat_queues[-1] # <<>>
        /\ sent_message_ids # <<>>

BackendCallFailures == {"summary_raise", "summary_empty"}

\* C20 as stated: when the backend call made for a summary failed, the
\* handler has, when it returns, told the requester of the failure (by the
\* failure notice, or by the error text in place of the summary) and sent
\* a diagnostic to the service chat.
C20_SummaryFailureDiagnosed ==
    \A i \in Tasks :
        (IsSummary(i) /\ tasks[i].pc = "done"
            /\ tasks[i].failed \in BackendCallFailures) =>
            /\ \/ Sent(i, Requester(i), "failure_notice")
               \/ Sent(i, Requester(i), "summary_error_text")
            /\ Sent(i, service_chat_id, "diagnostic")

----------------------------------------------------------------------------
(* Claims about images. *)

\* the positions of the entries of task i in the history of its chat
EntriesOf(i) ==
    LET c == tasks[i].ev.chat
    IN  IF c \in DOMAIN chat_queues
        THEN {k \in 1..Len(chat_queues[c]) : chat_queues[c][k].ev = i}
        ELSE {}

\* task i stored exactly one entry, a user entry with this tag
StoredOnly(i, tag) ==
    /\ tasks[i].appended = <<"user">>
    /\ Cardinality(EntriesOf(i)) = 1
    /\ \A k \in EntriesOf(i) :
          /\ chat_queues[tasks[i].ev.chat][k].role = "user"
          /\ chat_queues[tasks[i].ev.chat][k].tag = tag

\* C21 as stated: once _download_image has returned, on whatever path, the
\* temporary file it created exists no more.
C21_TempFileRemoved ==
    \A i \in Tasks :
        tasks[i].pc # "download" => tasks[i].temp_file # "exists"

DownloadFailures == {"download", "read"}

\* C22: a handler whose image download failed (download_media raised, or
\* the file could not be read) has returned, has stored exactly one entry,
\* the could-not-process placeholder with role user, has handed no call to
\* the backend, made no generation request and sent no message.
C22_DownloadFailureStops ==
    \A i \in Tasks :
        tasks[i].failed \in DownloadFailures =>
            /\ tasks[i].pc = "done"
            /\ StoredOnly(i, "download_failed")
            /\ tasks[i].calls = <<>>
            /\ tasks[i].gen_requests = 0
            /\ tasks[i].prompt = "none"
            /\ tasks[i].out = <<>>

\* one image could not be downloaded and another could not be read, while
\* the backend is connected
C22_Witness ==
    \E i, j \in Tasks :
        /\ tasks[i].failed = "download" /\ tasks[j].failed = "read"
        /\ tasks[i].ev.text.kw
        /\ client = "Client"

\* C23: a handler whose vision call failed (it raised, returned nothing, or
\* the service has no client) has returned, has stored exactly one entry,
\* the analysis-failed placeholder with role user, has sent a diagnostic to
\* the service chat and nothing to the chat of the event, and has made no
\* generation request.
C23_VisionFailureStops ==
    \A i \in Tasks :
        tasks[i].failed \in AnalysisFailures =>
            /\ tasks[i].pc = "done"
            /\ StoredOnly(i, "analysis_failed")
            /\ Sent(i, service_chat_id, "diagnostic")
            /\ ~SentTo(i, tasks[i].ev.chat)
            /\ tasks[i].gen_requests = 0
            /\ \A k \in 1..Len(tasks[i].calls) : tasks[i].calls[k].kind = "vision"

\* the vision call of an image whose caption holds a keyword ran in the
\* worker thread and failed
C23_Witness ==
    \E i \in Tasks :
        /\ tasks[i].failed = "vision"
        /\ tasks[i].ev.text.kw /\ tasks[i].ev.chat = -1
        /\ Len(tasks[i].calls) = 1 /\ tasks[i].calls[1].state = "returned"
        /\ tasks[i].temp_file = "removed"

----------------------------------------------------------------------------
(* Claims about sending a reply. *)

\* for every task: an assistant entry only with a reply sent to the chat of
\* the event; a sent reply with its id in the ring and its assistant entry;
\* a failed send with neither
SendAndStoreAgree ==
    \A i \in Tasks :
        /\ Has(tasks[i].appended, "assistant") =>
              Sent(i, tasks[i].ev.chat, "reply")
        /\ Sent(i, tasks[i].ev.chat, "reply") =>
              /\ Has(tasks[i].appended, "assistant")
              /\ Len(tasks[i].recorded) = 1
              /\ Has(sent_message_ids, tasks[i].recorded[1])
        /\ tasks[i].failed = "respond" =>
              /\ ~Has(tasks[i].appended, "assistant")
              /\ tasks[i].recorded = <<>>
              /\ ~SentTo(i, tasks[i].ev.chat)

\* the step in which event.respond returns or raises for task i
SendStep(i) ==
    /\ i \in Tasks
    /\ tasks[i].pc = "respond"
    /\ tasks'[i].pc # "respond"

SendStepEffect ==
    \A i \in Tasks :
        SendStep(i) =>
            IF tasks'[i].failed = "respond"
            THEN /\ sent_message_ids' = sent_message_ids
                 /\ chat_queues' = chat_queues
            ELSE /\ Len(tasks'[i].recorded) = 1
                 /\ sent_message_ids' =
                        deque_append(sent_message_ids, tasks'[i].recorded[1],
                                     RingMaxLen)
                 /\ chat_queues' =
                        [chat_queues EXCEPT ![tasks[i].ev.chat] =
                            deque_append(@, [role |-> "assistant", ev |-> i,
                                             tag |-> "reply"], QueueMaxLen)]

\* C24: an assistant entry is in a chat's history only for a reply that was
\* sent to that chat; a successful send appends the id to the ring and the
\* assistant entry to the history; a failed send leaves the ring and every
\* history as they were.
C24_StoredOnlyAfterSent == []SendAndStoreAgree /\ [][SendStepEffect]_vars

\* one reply was sent and stored, and the send of another reply failed
C24_Witness ==
    \E i, j \in Tasks :
        /\ tasks[i].failed = "respond" /\ tasks[i].pc = "done"
        /\ Sent(j, tasks[j].ev.chat, "reply")
        /\ Has(tasks[j].appended, "assistant")
        /\ tasks[i].ev.chat = tasks[j].ev.chat

\* C29 as stated: a text message of a group chat without keyword causes a
\* generation that is not stochastic only when it replies to a message
\* that the bot sent in that same chat.
C29_ReplyTriggerIsPerChat ==
    \A i \in Tasks :
        (/\ IsGroupText(i)
         /\ ~tasks[i].ev.text.kw
         /\ tasks[i].gen_requests > 0
         /\ ~tasks[i].is_random) =>
            \E j \in Tasks :
                /\ tasks[j].ev.chat = tasks[i].ev.chat
                /\ Has(tasks[j].recorded, tasks[i].ev.reply_to)

----------------------------------------------------------------------------
(* Claims about the backend calls and the model names. *)

IsModelCommand(i) ==
    FromAdmin(i) /\ tasks[i].ev.text.cmd \in {"model", "vision"}

\* C25 as stated: the step that applies the administrator's `!модель` or
\* `!vision` with a name sets that model name and leaves the other; with no
\* argument, or an empty one, it leaves both and sends feedback.
C25_ModelCommands ==
    [][\A i \in Tasks :
         (IsModelCommand(i) /\ Routes(i)) =>
            IF tasks[i].ev.text.arg \in {"missing", ""}
            THEN /\ model' = model /\ vision_model' = vision_model
                 /\ tasks'[i].out =
                        <<[to |-> service_chat_id, what |-> "bad_format"]>>
            ELSE IF tasks[i].ev.text.cmd = "model"
                 THEN /\ model' = tasks[i].ev.text.arg
                      /\ vision_model' = vision_model
                 ELSE /\ vision_model' = tasks[i].ev.text.arg
                      /\ model' = model]_vars

\* the calls the worker thread is running, as <<task, position>>
RunningCalls ==
    {c \in Tasks \X (1..2) :
        /\ c[2] <= Len(tasks[c[1]].calls)
        /\ tasks[c[1]].calls[c[2]].state = "running"}

\* a step in which the worker thread takes a call
StartsCall ==
    \E i \in Tasks :
        /\ tasks[i].calls # <<>>
        /\ LastOf(tasks[i].calls).state = "queued"
        /\ LastOf(tasks'[i].calls).state = "running"

\* C26: at most one backend call, text or vision, runs at any time, and
\* the worker thread takes a call only when it runs none; events that
\* arrive meanwhile are accepted and stored (the witness).
C26_OneCallAtATime ==
    /\ [](Cardinality(RunningCalls) <= 1)
    /\ [](\A i \in Tasks : Len(tasks[i].calls) <= 2)
    /\ [][StartsCall => RunningCalls = {}]_vars

\* while the call of an event runs, a later event arrived, was stored in
\* its chat's history, and its own call waits in the queue
C26_Witness ==
    \E i, j \in Tasks :
        /\ i < j
        /\ <<i, 1>> \in RunningCalls
        /\ tasks[j].ev.media = "none" /\ tasks[j].ev.chat = 1
        /\ tasks[j].appended = <<"user">>
        /\ StoredBy(j)
        /\ LastOf(tasks[j].calls).state = "queued"

\* C27 as stated: a backend call that the worker thread has taken uses the
\* model name that was current when the handler issued it.
C27_ModelReadAtIssue ==
    \A i \in Tasks :
        (tasks[i].calls # <<>> /\ LastOf(tasks[i].calls).state # "queued") =>
            tasks[i].used_model = LastOf(tasks[i].calls).issued

----------------------------------------------------------------------------
(* Claims about what one event can cause. *)

Count(seq, x) == Cardinality({k \in 1..Len(seq) : seq[k] = x})

CallsOfKind(i, kind) ==
    Cardinality({k \in 1..Len(tasks[i].calls) : tasks[i].calls[k].kind = kind})

\* C30: every event has at most one generation request and at most one text
\* call of the backend, at most one user entry and one assistant entry, in
\* that order; an image has at most one vision call, made before the
\* generation; an administrator command has no generation request, no
\* backend call and no entry, and a summary command no reply prompt, no
\* entry and no reply.
C30_AtMostOnePerEvent ==
    \A i \in Tasks :
        /\ tasks[i].gen_requests <= 1
        /\ CallsOfKind(i, "text") <= 1
        /\ CallsOfKind(i, "text") <= tasks[i].gen_requests
        /\ Count(tasks[i].appended, "user") <= 1
        /\ Count(tasks[i].appended, "assistant") <= 1
        /\ Len(tasks[i].appended) <= 2
        /\ Has(tasks[i].appended, "assistant") => tasks[i].appended[1] = "user"
        /\ CallsOfKind(i, "vision") <= 1
        /\ CallsOfKind(i, "vision") = 1 =>
              /\ tasks[i].ev.media = "photo"
              /\ tasks[i].calls[1].kind = "vision"
        /\ IsAdminCommand(i) =>
              /\ tasks[i].gen_requests = 0
              /\ tasks[i].calls = <<>>
              /\ tasks[i].appended = <<>>
        /\ IsSummary(i) =>
              /\ tasks[i].prompt = "none"
              /\ tasks[i].appended = <<>>
              /\ ~Sent(i, tasks[i].ev.chat, "reply")

\* an image of the group chat whose description holds a keyword, handled
\* when the history is long and the random draw is below the probability,
\* was answered once; before it a command was consumed
C30_Witness ==
    \E i, c \in Tasks :
        /\ c < i /\ IsAdminCommand(c) /\ Applied(c)
        /\ message_probability = 100
        /\ tasks[i].ev.media = "photo"
        /\ Len(chat_queues[-1]) > 5
        /\ tasks[i].pc = "done"
        /\ tasks[i].gen_requests = 1 /\ ~tasks[i].is_random
        /\ tasks[i].appended = <<"user", "assistant">>
        /\ Len(tasks[i].calls) = 2

====
